---- MODULE Spec2Model ----
(***************************************************************************)
(* Model of drmemd/src/core.rs: the device table (DeviceMap), the core     *)
(* task (State::run, State::handle_driver_request, State::send_reply) and  *)
(* the bootstrap (start), together with the drivers that hold clones of    *)
(* the request Sender and the one-shot reply Receivers.                    *)
(***************************************************************************)
EXTENDS Integers, Sequences, FiniteSets, TLC

\* ---- bounds of the model -------------------------------------------------
MaxReqs == 3        \* requests submitted over the registry's lifetime
MaxSenders == 2     \* Sender handles of the request channel alive at once
MaxBurstReqs == 12  \* requests submitted in the runs that fill the channel

\* ---- program constants ---------------------------------------------------
ReqChanCap == 10    \* mpsc::channel(10) in start()

\* device names drivers may ask for (the code accepts any String)
DevNames == {"", "furnace.temp", "furnace.setpoint"}
ReqKinds == {"AddReadonlyDevice", "AddReadWriteDevice"}

\* ---- values --------------------------------------------------------------
\* Option<T>: <<>> is None, <<v>> is Some(v)
None == <<>>
Some(v) == <<v>>

\* an endpoint of channel number c
TxEnd(c) == [chan |-> c, side |-> "tx"]
RxEnd(c) == [chan |-> c, side |-> "rx"]

\* Result<T>
Ok(v) == [ok |-> TRUE, val |-> v]
DeviceDefined(name) == [kind |-> "DeviceDefined", name |-> name]
Err(e) == [ok |-> FALSE, err |-> e]

VARIABLES
    devices,     \* State.devices: device name -> (value tx, Option<setting tx>)
    nextChan,    \* number of channels created so far by the table
    rx_drv_req,  \* the requests queued in the inbound mpsc channel
    senders,     \* how many Sender handles of the inbound channel are alive
    task,        \* the core task: "Running" or "Terminated"
    join,        \* what the JoinHandle resolves with: "Pending" or "Ok"
    blocked,     \* the requests whose send waits, in order, for a slot of
                 \* the full channel
    granted,     \* the requests whose send was given a slot by a recv() and
                 \* has not run again yet to queue its request
    held,        \* the device channel endpoints the drivers hold
    reqs,        \* every request submitted on the inbound channel, by id, with
                 \* what held when it was submitted: its name was absent from
                 \* the table, and the pending requests ahead for that name
    rpyRx,       \* per request: its oneshot Receiver is still held
    rpySent,     \* per request: the oneshot sends made on its rpy_chan
    log          \* the requests handled so far, in handling order

vars == <<devices, nextChan, rx_drv_req, senders, task, join, blocked,
          granted, held, reqs, rpyRx, rpySent, log>>

\* ---- DeviceMap -----------------------------------------------------------
DeviceMap_new == [n \in {} |-> None]

\* bug variant: the entry is written whether or not the name is taken
insert_ro_device_overwrite(devs, device_name, fresh) ==
    [devs   |-> [n \in (DOMAIN devs) \cup {device_name} |->
                    IF n = device_name
                    THEN [val |-> TxEnd(fresh + 1), setting |-> None]
                    ELSE devs[n]],
     result |-> Some([tx_val |-> TxEnd(fresh + 1)]),
     fresh  |-> fresh + 1]

\* bug variant: the vacancy test looks at the table, not at the name
insert_ro_device_first_only(devs, device_name, fresh) ==
    IF DOMAIN devs = {}
    THEN insert_ro_device_overwrite(devs, device_name, fresh)
    ELSE [devs |-> devs, result |-> None, fresh |-> fresh]

\* bug variant: the table keeps a channel other than the one it returns
insert_ro_device_other_channel(devs, device_name, fresh) ==
    IF device_name \notin DOMAIN devs
    THEN [devs   |-> [n \in (DOMAIN devs) \cup {device_name} |->
                         IF n = device_name
                         THEN [val |-> TxEnd(fresh + 1), setting |-> None]
                         ELSE devs[n]],
          result |-> Some([tx_val |-> TxEnd(fresh + 2)]),
          fresh  |-> fresh + 2]
    ELSE [devs |-> devs, result |-> None, fresh |-> fresh]

\* bug variant: an empty name is refused
insert_ro_device_nonempty(devs, device_name, fresh) ==
    IF device_name \notin DOMAIN devs /\ device_name # ""
    THEN insert_ro_device_overwrite(devs, device_name, fresh)
    ELSE [devs |-> devs, result |-> None, fresh |-> fresh]

insert_ro_device(devs, device_name, fresh) ==
    IF device_name \notin DOMAIN devs
    THEN LET tx == TxEnd(fresh + 1)
         IN [devs   |-> [n \in (DOMAIN devs) \cup {device_name} |->
                            IF n = device_name
                            THEN [val |-> tx, setting |-> None]
                            ELSE devs[n]],
             result |-> Some([tx_val |-> tx]),
             fresh  |-> fresh + 1]
    ELSE [devs |-> devs, result |-> None, fresh |-> fresh]

\* bug variant: the entry is written whether or not the name is taken
insert_rw_device_overwrite(devs, device_name, fresh) ==
    [devs   |-> [n \in (DOMAIN devs) \cup {device_name} |->
                    IF n = device_name
                    THEN [val |-> TxEnd(fresh + 1),
                          setting |-> Some(TxEnd(fresh + 2))]
                    ELSE devs[n]],
     result |-> Some([tx_val |-> TxEnd(fresh + 1),
                      rx_setting |-> RxEnd(fresh + 2)]),
     fresh  |-> fresh + 2]

\* bug variant: the Receiver returned is of another setting channel than
\* the Sender the table keeps
insert_rw_device_unpaired(devs, device_name, fresh) ==
    IF device_name \notin DOMAIN devs
    THEN [devs   |-> [n \in (DOMAIN devs) \cup {device_name} |->
                         IF n = device_name
                         THEN [val |-> TxEnd(fresh + 1),
                               setting |-> Some(TxEnd(fresh + 2))]
                         ELSE devs[n]],
          result |-> Some([tx_val |-> TxEnd(fresh + 1),
                           rx_setting |-> RxEnd(fresh + 3)]),
          fresh  |-> fresh + 3]
    ELSE [devs |-> devs, result |-> None, fresh |-> fresh]

insert_rw_device(devs, device_name, fresh) ==
    IF device_name \notin DOMAIN devs
    THEN LET tx_val     == TxEnd(fresh + 1)
             tx_setting == TxEnd(fresh + 2)
             rx_setting == RxEnd(fresh + 2)
         IN [devs   |-> [n \in (DOMAIN devs) \cup {device_name} |->
                            IF n = device_name
                            THEN [val |-> tx_val, setting |-> Some(tx_setting)]
                            ELSE devs[n]],
             result |-> Some([tx_val |-> tx_val, rx_setting |-> rx_setting]),
             fresh  |-> fresh + 2]
    ELSE [devs |-> devs, result |-> None, fresh |-> fresh]

\* ---- State ---------------------------------------------------------------
State_create == DeviceMap_new

\* bug variant: nothing is sent when the table returned None
send_reply_drop_failure(dev_name, rx_alive, val) ==
    IF val = None
    THEN <<>>
    ELSE << [result |-> Ok(val[1]), delivered |-> rx_alive,
             warned |-> ~rx_alive] >>

\* bug variant: the error does not carry the device name
send_reply_unnamed(dev_name, rx_alive, val) ==
    << [result    |-> IF val = None THEN Err(DeviceDefined(""))
                      ELSE Ok(val[1]),
        delivered |-> rx_alive,
        warned    |-> ~rx_alive] >>

\* The oneshot sends send_reply makes (one), each with the Result sent,
\* whether the Receiver took it, and whether the warning was logged.
send_reply(dev_name, rx_alive, val) ==
    LET result == IF val = None THEN Err(DeviceDefined(dev_name))
                  ELSE Ok(val[1])
    IN << [result |-> result, delivered |-> rx_alive, warned |-> ~rx_alive] >>

\* bug variant: a read-write request is served by the read-only insertion
handle_driver_request_all_ro(devs, fresh, req, rx_alive) ==
    LET r == insert_ro_device(devs, req.dev_name, fresh)
    IN [devs |-> r.devs, fresh |-> r.fresh, rpy_chan |-> req.rpy_chan,
        sends |-> send_reply(req.dev_name, rx_alive, r.result)]

\* bug variant: the insertion is undone when the reply could not be sent
handle_driver_request_rollback(devs, fresh, req, rx_alive) ==
    LET r == IF req.kind = "AddReadonlyDevice"
             THEN insert_ro_device(devs, req.dev_name, fresh)
             ELSE insert_rw_device(devs, req.dev_name, fresh)
    IN [devs     |-> IF rx_alive THEN r.devs ELSE devs,
        fresh    |-> r.fresh,
        rpy_chan |-> req.rpy_chan,
        sends    |-> send_reply(req.dev_name, rx_alive, r.result)]

handle_driver_request(devs, fresh, req, rx_alive) ==
    IF req.kind = "AddReadonlyDevice"
    THEN LET r == insert_ro_device(devs, req.dev_name, fresh)
         IN [devs |-> r.devs, fresh |-> r.fresh, rpy_chan |-> req.rpy_chan,
             sends |-> send_reply(req.dev_name, rx_alive, r.result)]
    ELSE LET r == insert_rw_device(devs, req.dev_name, fresh)
         IN [devs |-> r.devs, fresh |-> r.fresh, rpy_chan |-> req.rpy_chan,
             sends |-> send_reply(req.dev_name, rx_alive, r.result)]

\* bug variant: the newest queued request is taken first
recv_newest(queue) ==
    [req |-> queue[Len(queue)], rest |-> SubSeq(queue, 1, Len(queue) - 1)]

\* rx_drv_req.recv() on a non-empty channel: the oldest request, and what
\* stays queued
recv(queue) ==
    [req |-> Head(queue), rest |-> Tail(queue)]

\* bug variant: the loop leaves as soon as the last Sender is gone
run_exit_no_senders(queue, live) ==
    IF live = 0 THEN "else"
    ELSE IF queue # <<>> THEN "req" ELSE "pending"

\* bug variant: the loop leaves when it finds the queue empty
run_exit_queue_empty(queue, live) ==
    IF queue # <<>> THEN "req" ELSE "else"

\* bug variant: a closed channel is waited on for ever
run_never_exits(queue, live) ==
    IF queue # <<>> THEN "req" ELSE "pending"

\* The branch the select! of run takes: recv() yields the oldest queued
\* request; it yields None, which disables the branch and selects `else`,
\* only when the queue is empty and no Sender is left; otherwise it waits.
run(queue, live) ==
    IF queue # <<>> THEN "req"
    ELSE IF live = 0 THEN "else"
    ELSE "pending"

\* ---- start() -------------------------------------------------------------
Init ==
    /\ devices = State_create
    /\ nextChan = 0
    /\ rx_drv_req = <<>>
    /\ senders = 1
    /\ task = "Running"
    /\ join = "Pending"
    /\ blocked = <<>>
    /\ granted = {}
    /\ held = {}
    /\ reqs = <<>>
    /\ rpyRx = <<>>
    /\ rpySent = <<>>
    /\ log = <<>>

\* ---- drivers -------------------------------------------------------------
\* tx.clone(): a holder of a Sender makes another handle for a driver
CloneSender ==
    /\ senders > 0
    /\ senders < MaxSenders
    /\ senders' = senders + 1
    /\ UNCHANGED <<devices, nextChan, rx_drv_req, task, join, blocked,
                   granted, held, reqs, rpyRx, rpySent, log>>

\* a Sender handle is dropped; a suspended send borrows a handle, so the
\* last one stays while a send is suspended
DropSender ==
    /\ senders > 0
    /\ (blocked # <<>> \/ granted # {}) => senders > 1
    /\ senders' = senders - 1
    /\ UNCHANGED <<devices, nextChan, rx_drv_req, task, join, blocked,
                   granted, held, reqs, rpyRx, rpySent, log>>

QueuedIds == {rx_drv_req[i].rpy_chan : i \in DOMAIN rx_drv_req}
BlockedIds == {blocked[i].rpy_chan : i \in DOMAIN blocked}
GrantedIds == {r.rpy_chan : r \in granted}

\* bug variant: a request that finds the channel full is thrown away
chan_send_lossy(queue, waiters, slots_given, req) ==
    IF Len(queue) + Cardinality(slots_given) < ReqChanCap
    THEN [queue |-> Append(queue, req), waiters |-> waiters]
    ELSE [queue |-> queue, waiters |-> waiters]

\* Sender::send on the channel start() made with mpsc::channel(10): each of
\* the 10 slots is taken by a queued request or already given to a suspended
\* send; the request is queued at once when a slot is free, also while a
\* send that was given its slot has not queued yet; otherwise the send is
\* suspended behind the sends already waiting.
chan_send(queue, waiters, slots_given, req) ==
    IF Len(queue) + Cardinality(slots_given) < ReqChanCap
    THEN [queue |-> Append(queue, req), waiters |-> waiters]
    ELSE [queue |-> queue, waiters |-> Append(waiters, req)]

\* recv() has taken a request off the channel: the slot goes to the send
\* that has waited longest, which leaves the wait list, or is free
chan_release(waiters, slots_given) ==
    IF waiters # <<>>
    THEN [waiters |-> Tail(waiters),
          slots_given |-> slots_given \cup {Head(waiters)}]
    ELSE [waiters |-> waiters, slots_given |-> slots_given]

\* a driver builds Request{dev_name, rpy_chan} and calls tx.send(req).await
Send(kind, name) ==
    /\ senders > 0
    /\ task = "Running"
    /\ LET id  == Len(reqs) + 1
           req == [kind |-> kind, dev_name |-> name, rpy_chan |-> id]
           out == chan_send(rx_drv_req, blocked, granted, req)
       IN /\ rx_drv_req' = out.queue
          /\ blocked' = out.waiters
          /\ reqs' = Append(reqs, [req |-> req,
                                   absent |-> name \notin DOMAIN devices,
                                   ahead |->
                                       {i \in QueuedIds \cup BlockedIds
                                                 \cup GrantedIds :
                                           reqs[i].req.dev_name = name}])
          /\ rpyRx' = Append(rpyRx, TRUE)
          /\ rpySent' = Append(rpySent, <<>>)
    /\ UNCHANGED <<devices, nextChan, senders, task, join, granted, held,
                   log>>

\* a request of the drivers, of which there are at most MaxReqs
SubmitRequest(kind, name) ==
    /\ Len(reqs) < MaxReqs
    /\ Send(kind, name)

\* the devices a driver registers one after the other when it starts
BurstDevs ==
    << "td.01", "td.02", "td.03", "td.04", "td.05", "td.06", "td.07",
       "td.08", "td.09", "td.10", "td.11", "td.12", "td.13", "td.14" >>

\* the next request of a burst of at most MaxBurstReqs, each for a device
\* of its own
BurstRequest(kind) ==
    /\ Len(reqs) < MaxBurstReqs
    /\ Len(reqs) < Len(BurstDevs)
    /\ Send(kind, BurstDevs[Len(reqs) + 1])

\* the task of a suspended send that was given a slot runs again and
\* queues its request; such tasks run in any order
ResumeSend(id) ==
    /\ \E r \in granted :
           /\ r.rpy_chan = id
           /\ rx_drv_req' = Append(rx_drv_req, r)
           /\ granted' = granted \ {r}
    /\ UNCHANGED <<devices, nextChan, senders, task, join, blocked, held,
                   reqs, rpyRx, rpySent, log>>

\* the requester drops its oneshot Receiver before a reply was sent
DropReplyRx(id) ==
    /\ id \in DOMAIN rpyRx
    /\ rpyRx[id]
    /\ rpySent[id] = <<>>
    /\ rpyRx' = [rpyRx EXCEPT ![id] = FALSE]
    /\ UNCHANGED <<devices, nextChan, rx_drv_req, senders, task, join,
                   blocked, granted, held, reqs, rpySent, log>>

\* a driver drops an endpoint it got in a reply
DropEndpoint(e) ==
    /\ e \in held
    /\ held' = held \ {e}
    /\ UNCHANGED <<devices, nextChan, rx_drv_req, senders, task, join,
                   blocked, granted, reqs, rpyRx, rpySent, log>>

\* the endpoints a oneshot send hands to the requester: those of an Ok
\* value the Receiver took; a Result the send gives back is dropped
Delivered(sends) ==
    UNION {IF sends[k].delivered /\ sends[k].result.ok
           THEN {sends[k].result.val[f] : f \in DOMAIN sends[k].result.val}
           ELSE {} : k \in DOMAIN sends}

\* ---- the core task -------------------------------------------------------
\* one iteration of the loop of run that receives and handles a request
RunHandle ==
    /\ task = "Running"
    /\ run(rx_drv_req, senders) = "req"
    /\ LET got == recv(rx_drv_req)
           req == got.req
           rel == chan_release(blocked, granted)
           out == handle_driver_request(devices, nextChan, req,
                                        rpyRx[req.rpy_chan])
       IN /\ devices' = out.devs
          /\ nextChan' = out.fresh
          /\ rx_drv_req' = got.rest
          /\ blocked' = rel.waiters
          /\ granted' = rel.slots_given
          /\ rpySent' = [rpySent EXCEPT ![out.rpy_chan] = @ \o out.sends]
          /\ held' = held \cup Delivered(out.sends)
          /\ log' = Append(log, [id      |-> req.rpy_chan,
                                 req     |-> req,
                                 present |-> req.dev_name \in DOMAIN devices,
                                 to      |-> out.rpy_chan,
                                 sends   |-> out.sends])
    /\ UNCHANGED <<senders, task, join, reqs, rpyRx>>

\* the else branch of the select!: return Ok(()). run owns the State, which
\* is dropped on return: the table, and with it every Sender it stores, is
\* gone, and no entry is left.
RunExit ==
    /\ task = "Running"
    /\ run(rx_drv_req, senders) = "else"
    /\ task' = "Terminated"
    /\ join' = "Ok"
    /\ devices' = DeviceMap_new
    /\ UNCHANGED <<nextChan, rx_drv_req, senders, blocked, granted, held,
                   reqs, rpyRx, rpySent, log>>

Next ==
    \/ CloneSender
    \/ DropSender
    \/ \E k \in ReqKinds, n \in DevNames : SubmitRequest(k, n)
    \/ \E id \in 1..MaxReqs : DropReplyRx(id)
    \/ RunHandle
    \/ RunExit

Spec == Init /\ [][Next]_vars

\* The same system with the drivers' requests drawn from two names, under
\* the scheduler's guarantee that the core task runs whenever it can step.
FairNames == {"", "furnace.temp"}

FairNext ==
    \/ CloneSender
    \/ DropSender
    \/ \E k \in ReqKinds, n \in FairNames : SubmitRequest(k, n)
    \/ \E id \in 1..MaxReqs : DropReplyRx(id)
    \/ RunHandle
    \/ RunExit

FairSpec ==
    Init /\ [][FairNext]_vars /\ WF_vars(RunHandle) /\ WF_vars(RunExit)

\* The drivers also drop the endpoints the replies gave them.
ChanNext ==
    \/ CloneSender
    \/ DropSender
    \/ \E k \in ReqKinds, n \in FairNames : SubmitRequest(k, n)
    \/ \E id \in 1..MaxReqs : DropReplyRx(id)
    \/ \E e \in held : DropEndpoint(e)
    \/ RunHandle
    \/ RunExit

ChanSpec == Init /\ [][ChanNext]_vars

\* A burst of requests, enough to fill the channel, with the scheduler
\* running the core task and the task of every send that was given a slot.
BurstKinds == {"AddReadonlyDevice"}

BurstNext ==
    \/ CloneSender
    \/ DropSender
    \/ \E k \in BurstKinds : BurstRequest(k)
    \/ \E id \in 1..MaxBurstReqs : ResumeSend(id)
    \/ RunHandle
    \/ RunExit

BurstSpec ==
    /\ Init /\ [][BurstNext]_vars
    /\ WF_vars(RunHandle) /\ WF_vars(RunExit)
    /\ \A id \in 1..MaxBurstReqs : WF_vars(ResumeSend(id))

TypeOK ==
    /\ DOMAIN devices \subseteq DevNames
    /\ nextChan \in 0..(2 * MaxReqs)
    /\ Len(rx_drv_req) <= ReqChanCap
    /\ senders \in 0..MaxSenders
    /\ task \in {"Running", "Terminated"}
    /\ join \in {"Pending", "Ok"}
    /\ Len(reqs) <= MaxReqs
    /\ Len(rpyRx) = Len(reqs) /\ Len(rpySent) = Len(reqs)
    /\ Len(log) <= Len(reqs)
\* ---- properties ----------------------------------------------------------
LogIds == {log[i].id : i \in DOMAIN log}
Handled(id) == id \in LogIds

\* the request of a log entry was answered with success
Succeeded(e) == \E k \in DOMAIN e.sends : e.sends[k].result.ok
\* the request of a log entry was answered with DeviceDefined(n) and only that
FailedWith(e, n) ==
    /\ Len(e.sends) = 1
    /\ e.sends[1].result = Err(DeviceDefined(n))

\* C1 (Uniqueness): for every device name at most one handled request was
\* answered with success, and every request for that name handled after the
\* success was answered with DeviceDefined(name), whatever the two kinds.
C1_Uniqueness ==
    \A i \in DOMAIN log : \A j \in DOMAIN log :
        (i # j /\ log[i].req.dev_name = log[j].req.dev_name) =>
            /\ ~(Succeeded(log[i]) /\ Succeeded(log[j]))
            /\ (i < j /\ Succeeded(log[i])) =>
                   FailedWith(log[j], log[j].req.dev_name)

C1_Witness ==
    \E i \in DOMAIN log : \E j \in DOMAIN log :
        /\ i < j
        /\ log[i].req.dev_name = log[j].req.dev_name
        /\ log[i].req.kind # log[j].req.kind
        /\ Succeeded(log[i])
        /\ FailedWith(log[j], log[j].req.dev_name)

\* Requests a and b (a submitted first) race for one name: the name was not
\* registered and no other request for it was queued when either was
\* submitted, and a was still queued when b was submitted.
Racing(a, b) ==
    /\ a < b
    /\ reqs[a].req.dev_name = reqs[b].req.dev_name
    /\ reqs[a].absent /\ reqs[b].absent
    /\ a \in reqs[b].ahead
    /\ \A c \in reqs[a].ahead \cup (reqs[b].ahead \ {a}) :
           reqs[c].req.dev_name # reqs[a].req.dev_name

\* the Result the requester of request id finds in its oneshot Receiver
Received(id) ==
    {rpySent[id][k].result :
        k \in {m \in DOMAIN rpySent[id] : rpySent[id][m].delivered}}

\* C2 (race on one name): when two requests race for an unregistered name
\* and both requesters keep their reply channel open, then once both are
\* handled exactly one has received success and the other has received
\* DeviceDefined(name).
C2_RaceOneWinner ==
    \A a \in DOMAIN reqs : \A b \in DOMAIN reqs :
        (Racing(a, b) /\ rpyRx[a] /\ rpyRx[b] /\ Handled(a) /\ Handled(b)) =>
            LET n  == reqs[a].req.dev_name
                ra == Received(a)
                rb == Received(b)
            IN /\ Cardinality(ra) = 1 /\ Cardinality(rb) = 1
               /\ \/ (\A r \in ra : r.ok) /\ rb = {Err(DeviceDefined(n))}
                  \/ (\A r \in rb : r.ok) /\ ra = {Err(DeviceDefined(n))}

C2_Witness ==
    \E a \in DOMAIN reqs : \E b \in DOMAIN reqs :
        /\ Racing(a, b) /\ rpyRx[a] /\ rpyRx[b] /\ Handled(a) /\ Handled(b)
        /\ reqs[a].req.kind # reqs[b].req.kind
        /\ Received(b) = {Err(DeviceDefined(reqs[a].req.dev_name))}

\* C3 (no partial state on failure): a step that handles a request whose
\* name is already in the table leaves the table as it was and creates no
\* channel.
C3_FailureLeavesTable ==
    [][(Len(log') = Len(log) + 1 /\ log'[Len(log')].present) =>
           (devices' = devices /\ nextChan' = nextChan)]_vars

C3_Witness ==
    \E i \in DOMAIN log :
        /\ task = "Running"
        /\ log[i].present
        /\ log[i].req.kind = "AddReadWriteDevice"
        /\ devices[log[i].req.dev_name].setting = None

\* C4 (the only failure): every failure sent is DeviceDefined(n) with n the
\* name of the request answered; a failure is sent if and only if the name
\* was in the table when the request was handled; it is sent once, on the
\* reply channel of that request.
C4_OnlyFailure ==
    \A i \in DOMAIN log :
        LET e == log[i]
            failures == {k \in DOMAIN e.sends : ~e.sends[k].result.ok}
        IN /\ \A k \in failures :
                  e.sends[k].result = Err(DeviceDefined(e.req.dev_name))
           /\ e.present <=> (failures # {})
           /\ e.present => (Len(e.sends) = 1 /\ e.to = e.id
                            /\ rpySent[e.id] = e.sends)

C4_Witness ==
    \E i \in DOMAIN log :
        /\ log[i].present
        /\ log[i].req.dev_name # ""
        /\ FailedWith(log[i], log[i].req.dev_name)
        /\ rpySent[log[i].id] = log[i].sends

\* C5 (kind exclusivity): as long as the table exists, the entry of a name
\* registered by a read-only request has no setting channel, and the entry
\* of a name registered by a read-write request has one; the one reply of
\* a read-only success carried a value-send endpoint only, that of a
\* read-write success the value-send and the setting-receive endpoint;
\* every entry is of one of the two forms.
C5_KindExclusive ==
    /\ \A i \in DOMAIN log :
           Succeeded(log[i]) =>
               LET e   == log[i]
                   val == e.sends[1].result.val
               IN /\ Len(e.sends) = 1
                  /\ task = "Running" => e.req.dev_name \in DOMAIN devices
                  /\ e.req.kind = "AddReadonlyDevice" =>
                         /\ task = "Running" =>
                                devices[e.req.dev_name].setting = None
                         /\ DOMAIN val = {"tx_val"}
                         /\ val.tx_val.side = "tx"
                  /\ e.req.kind = "AddReadWriteDevice" =>
                         /\ task = "Running" =>
                                devices[e.req.dev_name].setting # None
                         /\ DOMAIN val = {"tx_val", "rx_setting"}
                         /\ val.tx_val.side = "tx"
                         /\ val.rx_setting.side = "rx"
    /\ \A n \in DOMAIN devices :
           \E i \in DOMAIN log : log[i].req.dev_name = n /\ Succeeded(log[i])

C5_Witness ==
    \E i \in DOMAIN log : \E j \in DOMAIN log : \E k \in DOMAIN log :
        /\ task = "Running"
        /\ i < k /\ j < k
        /\ Succeeded(log[i]) /\ log[i].req.kind = "AddReadonlyDevice"
        /\ Succeeded(log[j]) /\ log[j].req.kind = "AddReadWriteDevice"
        /\ devices[log[i].req.dev_name].setting = None
        /\ devices[log[j].req.dev_name].setting # None

\* C6 (distinct names are independent): a request whose name was not in the
\* table when it was handled was answered with success, whatever had been
\* registered before.
C6_AbsentNameSucceeds ==
    \A i \in DOMAIN log :
        ~log[i].present =>
            (Len(log[i].sends) = 1 /\ log[i].sends[1].result.ok)

C6_Witness ==
    \E i \in DOMAIN log : \E j \in DOMAIN log :
        /\ i < j
        /\ log[i].req.dev_name = "furnace.setpoint"
        /\ log[j].req.dev_name = "furnace.temp"
        /\ ~log[i].present /\ ~log[j].present
        /\ Succeeded(log[i]) /\ Succeeded(log[j])
        /\ log[i].req.kind # log[j].req.kind
        /\ log[i].id < log[j].id

\* C7 (graceful shutdown): under fair scheduling of the core task, once no
\* Sender handle is left the task terminates and its JoinHandle resolves
\* with Ok.
C7_GracefulShutdown ==
    (senders = 0) ~> (task = "Terminated" /\ join = "Ok")

C7_Witness ==
    /\ senders = 0
    /\ task = "Running"
    /\ Len(rx_drv_req) >= 2

\* C8 (no request lost at shutdown): when the task is Terminated the inbound
\* queue is empty and every request accepted onto the channel has been
\* handled and had its reply sent.
C8_NothingLost ==
    task = "Terminated" =>
        /\ rx_drv_req = <<>>
        /\ \A id \in DOMAIN reqs : Handled(id) /\ Len(rpySent[id]) = 1

C8_Witness ==
    /\ task = "Terminated"
    /\ Len(reqs) = MaxReqs
    /\ \A id \in DOMAIN reqs : Handled(id)

\* C9 (single trigger of termination): the task is Running while a Sender
\* exists; it leaves Running only from a state with no Sender and an empty
\* queue, and then with Ok; its result is never an error.
C9_SingleTrigger ==
    /\ [](senders > 0 => task = "Running")
    /\ [](join # "Err")
    /\ [][(task = "Running" /\ task' # "Running") =>
              (senders = 0 /\ rx_drv_req = <<>> /\ join' = "Ok")]_vars
    /\ [][(Len(log') = Len(log) + 1) => (task' = "Running")]_vars

C9_Witness ==
    /\ task = "Terminated"
    /\ \E i \in DOMAIN log : log[i].present
    /\ \E i \in DOMAIN log : ~log[i].sends[1].delivered

\* C10 (one reply per request): every handled request had exactly one send
\* made on its own reply channel; no reply channel ever got two sends or a
\* send of another request; a request not yet handled has got none.
C10_OneReply ==
    /\ \A i \in DOMAIN log :
           /\ Len(log[i].sends) = 1
           /\ log[i].to = log[i].id
           /\ rpySent[log[i].id] = log[i].sends
           /\ \A j \in DOMAIN log : log[j].id = log[i].id => j = i
    /\ \A id \in DOMAIN rpySent :
           /\ Len(rpySent[id]) <= 1
           /\ ~Handled(id) => rpySent[id] = <<>>

C10_Witness ==
    /\ Len(log) >= 2
    /\ \E i \in DOMAIN log : log[i].present /\ log[i].sends[1].delivered
    /\ \E i \in DOMAIN log : ~log[i].present /\ ~log[i].sends[1].delivered
\* the Results of a sequence of oneshot sends
ResultsOf(sends) == [k \in DOMAIN sends |-> sends[k].result]

\* C11 (an unreachable caller is harmless): a step that handles a request
\* whose reply Receiver is gone leaves the task Running, hands nothing to a
\* driver, and gives the table, the channel count and the Result the values
\* the same request gives when its Receiver is there; a new name is in the
\* table afterwards.
C11_UnreachableCallerHarmless ==
    [][(Len(log') = Len(log) + 1 /\ ~rpyRx[log'[Len(log')].id]) =>
           LET e   == log'[Len(log')]
               alt == handle_driver_request(devices, nextChan, e.req, TRUE)
           IN /\ task' = "Running"
              /\ held' = held
              /\ devices' = alt.devs
              /\ nextChan' = alt.fresh
              /\ ResultsOf(e.sends) = ResultsOf(alt.sends)
              /\ e.req.dev_name \in DOMAIN devices'
              /\ \A k \in DOMAIN e.sends : ~e.sends[k].delivered]_vars

C11_Witness ==
    /\ task = "Running"
    /\ \E i \in DOMAIN log : \E j \in DOMAIN log :
        /\ i < j
        /\ ~log[i].present /\ ~log[i].sends[1].delivered
        /\ log[i].sends[1].warned
        /\ log[j].req.dev_name = log[i].req.dev_name
        /\ log[j].sends[1].delivered
        /\ FailedWith(log[j], log[j].req.dev_name)

\* C12 (backpressure without loss): the inbound channel never holds more
\* than ReqChanCap requests, slots given to suspended sends included; every
\* request submitted is, exactly once, waiting for a slot, given a slot,
\* queued or handled; a send is suspended only when no slot is free, gets
\* its slot from a recv(), and leaves suspension only by its request being
\* queued; under fair scheduling a suspended request gets queued.
C12_Backpressure ==
    /\ [](Len(rx_drv_req) + Cardinality(granted) <= ReqChanCap)
    /\ [](/\ BlockedIds \cup GrantedIds \cup QueuedIds \cup LogIds
              = DOMAIN reqs
          /\ Len(blocked) + Cardinality(granted) + Len(rx_drv_req) + Len(log)
              = Len(reqs))
    /\ [][Len(blocked') > Len(blocked) =>
              Len(rx_drv_req) + Cardinality(granted) = ReqChanCap]_vars
    /\ [][Len(blocked') < Len(blocked) =>
              (/\ Len(log') = Len(log) + 1
               /\ blocked' = Tail(blocked)
               /\ granted' = granted \cup {Head(blocked)})]_vars
    /\ [][\A r \in granted \ granted' :
              rx_drv_req' = Append(rx_drv_req, r)]_vars
    /\ \A id \in (ReqChanCap + 1)..MaxBurstReqs :
           (id \in BlockedIds \cup GrantedIds) ~> (id \in QueuedIds \cup LogIds)

C12_Witness ==
    /\ Len(rx_drv_req) = ReqChanCap - 1
    /\ Cardinality(granted) = 1
    /\ blocked # <<>>
    /\ Len(log) >= 1

\* C13 (serial, in-order service): requests are handled in the order they
\* were queued, and a step that takes a request off the channel, changes an
\* entry of the table or sends a reply does all three for the oldest queued
\* request and nothing for any other.
C13_SerialInOrder ==
    /\ [](/\ \A i \in DOMAIN log : log[i].id = i
          /\ \A k \in DOMAIN rx_drv_req :
                 rx_drv_req[k].rpy_chan = Len(log) + k)
    /\ [][(\/ devices' # devices /\ task' = "Running"
           \/ Len(rx_drv_req') < Len(rx_drv_req)
           \/ \E id \in DOMAIN rpySent : rpySent'[id] # rpySent[id]) =>
              (/\ Len(log') = Len(log) + 1
               /\ LET e == log'[Len(log')]
                  IN /\ e.req = Head(rx_drv_req)
                     /\ rx_drv_req' = Tail(rx_drv_req)
                     /\ Len(rpySent'[e.id]) = 1
                     /\ \A id \in DOMAIN rpySent \ {e.id} :
                            rpySent'[id] = rpySent[id]
                     /\ \A n \in DOMAIN devices' :
                            n \in DOMAIN devices \/ n = e.req.dev_name)]_vars

C13_Witness ==
    \E a \in DOMAIN reqs : \E b \in DOMAIN reqs :
        /\ a \in reqs[b].ahead
        /\ Handled(a) /\ Handled(b)
        /\ log[a].id = a /\ log[b].id = b
        /\ rx_drv_req # <<>>

\* C14 (every accepted request is answered): under fair scheduling of the
\* core task every submitted request is eventually handled and has its one
\* reply sent, which a requester still holding its Receiver gets.
C14_EventuallyAnswered ==
    \A id \in 1..MaxReqs :
        (id \in DOMAIN reqs) ~>
            (/\ Handled(id)
             /\ Len(rpySent[id]) = 1
             /\ rpyRx[id] => rpySent[id][1].delivered)

C14_Witness ==
    \E a \in DOMAIN reqs : \E b \in DOMAIN reqs :
        /\ a # b
        /\ Handled(a) /\ rpyRx[a] /\ Received(a) # {}
        /\ Handled(b) /\ ~rpyRx[b]
        /\ senders = 0

\* C15 (the table is monotonic): as long as the table exists, that is in
\* every step after which the task is Running, no step removes a name from the table or changes the value
\* channel or the setting channel of an entry.
C15_Monotonic ==
    [][task' = "Running" =>
           \A n \in DOMAIN devices :
               n \in DOMAIN devices' /\ devices'[n] = devices[n]]_vars

C15_Witness ==
    /\ task = "Running"
    /\ Cardinality(DOMAIN devices) >= 2
    /\ \E i \in DOMAIN log :
           /\ log[i].present
           /\ log[i].req.kind = "AddReadWriteDevice"
           /\ devices[log[i].req.dev_name].setting = None
    /\ \E n \in DOMAIN devices : devices[n].setting # None
\* the endpoints the Ok Results of a log entry carry
EndpointsOf(e) ==
    UNION {IF e.sends[k].result.ok
           THEN {e.sends[k].result.val[f] : f \in DOMAIN e.sends[k].result.val}
           ELSE {} : k \in DOMAIN e.sends}

\* C16 (the endpoints handed out are those of the stored entry): while the
\* task is Running, the value-send endpoint a successful request returned is
\* of the channel the table stores for that name, and the table holds its
\* Sender of that channel whether or not a driver still holds one.
C16_StoredChannel ==
    task = "Running" =>
        \A i \in DOMAIN log :
            Succeeded(log[i]) =>
                LET n == log[i].req.dev_name
                IN /\ n \in DOMAIN devices
                   /\ devices[n].val.side = "tx"
                   /\ log[i].sends[1].result.val.tx_val = devices[n].val
                   /\ \A m \in DOMAIN devices :
                          devices[m].val.chan = devices[n].val.chan => m = n

C16_Witness ==
    /\ task = "Running"
    /\ senders = 0
    /\ \E i \in DOMAIN log :
           /\ Succeeded(log[i])
           /\ log[i].sends[1].delivered
           /\ log[i].sends[1].result.val.tx_val \notin held
           /\ devices[log[i].req.dev_name].val
                  = log[i].sends[1].result.val.tx_val

\* C17 (setting-channel ownership): for every read-write entry the Sender of
\* its setting channel is in the table only, never in a reply or with a
\* driver; the Receiver of that channel was returned by exactly one handled
\* request, the successful read-write request for that name; no two entries
\* share a setting channel and no value channel is one.
C17_SettingOwnership ==
    \A n \in DOMAIN devices :
        devices[n].setting # None =>
            LET c == devices[n].setting[1].chan
                got == {i \in DOMAIN log : RxEnd(c) \in EndpointsOf(log[i])}
            IN /\ devices[n].setting[1] = TxEnd(c)
               /\ TxEnd(c) \notin held
               /\ \A i \in DOMAIN log : TxEnd(c) \notin EndpointsOf(log[i])
               /\ Cardinality(got) = 1
               /\ \A i \in got :
                      /\ log[i].req.dev_name = n
                      /\ log[i].req.kind = "AddReadWriteDevice"
                      /\ ~log[i].present
                      /\ log[i].sends[1].result.val.rx_setting = RxEnd(c)
               /\ \A m \in DOMAIN devices :
                      /\ devices[m].val.chan # c
                      /\ (m # n /\ devices[m].setting # None) =>
                             devices[m].setting[1].chan # c

C17_Witness ==
    \E i \in DOMAIN log : \E j \in DOMAIN log :
        /\ i < j
        /\ log[i].req.kind = "AddReadWriteDevice"
        /\ log[j].req.kind = "AddReadWriteDevice"
        /\ log[j].req.dev_name = log[i].req.dev_name
        /\ Succeeded(log[i]) /\ log[i].sends[1].delivered
        /\ log[j].sends[1].delivered
        /\ log[i].sends[1].result.val.rx_setting \in held
        /\ log[i].sends[1].result.val.tx_val \notin held

\* C18 as stated (names in the table are non-empty): no key of the table is
\* the empty string.
C18_NonEmptyKeys ==
    \A n \in DOMAIN devices : n # ""

\* C18 as amended: every key of the table is the name of a handled request
\* and, as long as the table exists, the keys are exactly the names of the
\* requests handled so far, the empty string among them when a request
\* carried it.
C18_KeysAreRequestedNames ==
    /\ DOMAIN devices \subseteq {log[i].req.dev_name : i \in DOMAIN log}
    /\ task = "Running" =>
           DOMAIN devices = {log[i].req.dev_name : i \in DOMAIN log}

C18_Witness ==
    /\ "" \in DOMAIN devices
    /\ \E i \in DOMAIN log :
           /\ log[i].req.dev_name = ""
           /\ log[i].req.kind = "AddReadonlyDevice"
           /\ Succeeded(log[i])

\* C19 (a registration is committed before its reply is attempted): when a
\* request for an unregistered name was handled with its reply Receiver
\* gone, the entry it made is in the table as long as the table exists, no
\* driver holds the endpoints of its Result, and every request for that
\* name handled later was answered with DeviceDefined(name).
C19_CommittedBeforeReply ==
    \A i \in DOMAIN log :
        (~log[i].present /\ \A k \in DOMAIN log[i].sends :
                                ~log[i].sends[k].delivered) =>
            LET n == log[i].req.dev_name
            IN /\ task = "Running" =>
                      /\ n \in DOMAIN devices
                      /\ devices[n].val \in EndpointsOf(log[i])
                      /\ (log[i].req.kind = "AddReadWriteDevice") =
                             (devices[n].setting # None)
               /\ Succeeded(log[i])
               /\ EndpointsOf(log[i]) \cap held = {}
               /\ \A j \in DOMAIN log :
                      (j > i /\ log[j].req.dev_name = n) =>
                          FailedWith(log[j], n)

C19_Witness ==
    \E i \in DOMAIN log : \E j \in DOMAIN log :
        /\ i < j
        /\ ~log[i].present /\ ~log[i].sends[1].delivered
        /\ log[i].req.kind = "AddReadWriteDevice"
        /\ log[j].req.dev_name = log[i].req.dev_name
        /\ log[j].req.kind = "AddReadonlyDevice"
        /\ log[j].sends[1].delivered
        /\ held = {}
        /\ log[i].req.dev_name \in DOMAIN devices

\* the handled requests answered with success
Successes == {i \in DOMAIN log : Succeeded(log[i])}

\* C20 (entries and successes correspond one to one): as long as the table
\* exists it has as many entries as requests were answered with success and
\* its keys are the names of those requests; it is empty before the first
\* request is handled.
C20_EntriesAreSuccesses ==
    /\ task = "Running" =>
           /\ Cardinality(DOMAIN devices) = Cardinality(Successes)
           /\ DOMAIN devices = {log[i].req.dev_name : i \in Successes}
    /\ log = <<>> => devices = DeviceMap_new

C20_Witness ==
    /\ task = "Running"
    /\ Cardinality(DOMAIN devices) = 2
    /\ Cardinality(Successes) = 2
    /\ Len(log) = 3
    /\ \E i \in Successes : ~log[i].sends[1].delivered
====
